---- MODULE Spec2Model ----
(***************************************************************************)
(* Model of tools/recon/amass/enum/names.go: the fqdnFilter pipeline stage *)
(* (checkFilter and the processDupNames goroutine) and the subdomainTask   *)
(* stage (Process, checkForSubdomains, timesForSubdomain, timesManager,    *)
(* OutputRequests, Stop).                                                  *)
(*                                                                         *)
(* A string is a sequence of tokens; "." is the label separator, " " is    *)
(* white space, every other token stands for a run of ordinary characters. *)
(***************************************************************************)
EXTENDS Integers, Sequences, FiniteSets, TLC

----------------------------------------------------------------------------
(* Bounds of the model *)

\* filterMaxSize, scaled down: accepted records between two filter resets
FilterMaxSize == 2
\* calls of fqdnFilter.Process explored in FilterSpec
MaxFilterCalls == 5
\* calls of fqdnFilter.Process explored in ReconSpec
MaxReconCalls == 3
\* the 10 minute grace period of processDupNames, in clock units
GracePeriod == 2
\* the clock stops advancing here
MaxTime == 4
\* calls of subdomainTask.Process explored in SubSpec
MaxSubCalls == 3
\* capacity of timesChan, scaled down
TimesChanCap == 1
\* longest output queue drawn in DrainSpec
MaxQueue == 3
\* most registered data sources drawn in DrainSpec
MaxSrcs == 3
\* largest capacity passed to OutputRequests in DrainSpec
MaxNum == 7

Workers == {1, 2}

----------------------------------------------------------------------------
(* Strings *)

Dot == "."
Space == " "

\* the names used as inputs
S_ec == <<"e", ".", "c">>
S_bec == <<"b", ".", "e", ".", "c">>
S_aec == <<"a", ".", "e", ".", "c">>
S_Aec == <<"A", ".", "e", ".", "c">>
S_abec == <<"a", ".", "b", ".", "e", ".", "c">>
S_xbec == <<"x", ".", "b", ".", "e", ".", "c">>
S_tcpbec == <<"_tcp", ".", "b", ".", "e", ".", "c">>
S_zo == <<"z", ".", "o">>
S_c == <<"c">>
S_empty == <<>>

ToLowerTok(t) == CASE t = "A" -> "a" [] t = "B" -> "b" [] OTHER -> t

\* strings.ToLower
ToLower(s) == [i \in DOMAIN s |-> ToLowerTok(s[i])]

RECURSIVE TrimLeft(_, _)
TrimLeft(s, cut) ==
    IF s # <<>> /\ Head(s) \in cut THEN TrimLeft(Tail(s), cut) ELSE s

RECURSIVE TrimRight(_, _)
TrimRight(s, cut) ==
    IF s # <<>> /\ s[Len(s)] \in cut
    THEN TrimRight(SubSeq(s, 1, Len(s) - 1), cut) ELSE s

\* strings.TrimSpace
TrimSpace(s) == TrimRight(TrimLeft(s, {Space}), {Space})

\* strings.Split(s, "."): the labels of s, "" gives one empty label
RECURSIVE SplitFrom(_, _)
SplitFrom(s, cur) ==
    IF s = <<>> THEN <<cur>>
    ELSE IF Head(s) = Dot THEN <<cur>> \o SplitFrom(Tail(s), <<>>)
    ELSE SplitFrom(Tail(s), Append(cur, Head(s)))

Split(s) == SplitFrom(s, <<>>)

\* strings.Join(labels, ".")
RECURSIVE Join(_)
Join(labels) ==
    IF labels = <<>> THEN <<>>
    ELSE IF Len(labels) = 1 THEN labels[1]
    ELSE labels[1] \o <<Dot>> \o Join(Tail(labels))

\* strings.HasSuffix
HasSuffix(s, suf) ==
    /\ Len(suf) <= Len(s)
    /\ SubSeq(s, Len(s) - Len(suf) + 1, Len(s)) = suf

\* strconv.FormatBool
FormatBool(b) == IF b THEN "true" ELSE "false"

----------------------------------------------------------------------------
(* Collaborators of the requests and config packages *)

\* requests.TrustedTag
TrustedTag(tag) == tag \in {"dns", "cert", "archive", "axfr"}

\* a validity test that lets every request through
Valid_Always(req) == TRUE

\* requests.DNSRequest.Valid
Valid(req) ==
    /\ req.Name # <<>>
    /\ req.Domain # <<>>
    /\ HasSuffix(req.Name, req.Domain)

\* requests.SanitizeDNSRequest
SanitizeDNSRequest(req) ==
    [req EXCEPT !.Name = TrimRight(TrimSpace(ToLower(req.Name)), {Dot}),
                !.Domain = TrimRight(TrimSpace(ToLower(req.Domain)), {Dot})]

\* the domains of the enumeration's configuration
ScopeDomains == {S_ec, S_bec}

\* Config.IsDomainInScope
IsDomainInScope(name) ==
    \E d \in ScopeDomains :
        name = d \/ HasSuffix(name, <<Dot>> \o d)

----------------------------------------------------------------------------
(* State *)

VARIABLES
    \* fqdnFilter
    mutex,       \* 0 when free, else the worker that holds f.Lock()
    fpc,         \* per worker: "idle" or "locked" (inside checkFilter)
    freq,        \* per worker: the request being checked
    filter,      \* keys inserted into f.filter since it was created
    count,       \* f.count
    dupQueue,    \* f.queue
    \* processDupNames
    loopPc,      \* "loop", "flush" (left the loop) or "exited"
    pending,     \* the goroutine's pending slice
    enumDone,    \* f.enum.done is closed
    clock,       \* time.Now()
    tickChan,    \* t.C: <<>> or one tick carrying its time
    graphNodes,  \* names the graph has an fqdn node for
    \* subdomainTask
    squeue,      \* r.queue
    timesChan,   \* r.timesChan
    done,        \* r.done is closed
    mgrPc,       \* timesManager: "run" or "exited"
    subdomains,  \* timesManager's map
    spc,         \* per worker: "idle", "send" or "recv" in timesForSubdomain
    sreq,        \* per worker: the request in Process
    replyCh,     \* per worker: the ch of its timesReq
    srcs,        \* number of registered data sources (r.enum.srcs)
    \* observations
    ncalls,      \* calls started
    last,        \* what the last completed operation did
    accepts,     \* keys accepted since the last reset, in order
    everAcc,     \* keys accepted at any time
    rejected,    \* numbers of the requests appended to f.queue
    lookups,     \* graph lookups made by processDupNames
    resub,       \* the go pipeline.SendData calls: [sub, times, nth]
    derived,     \* returns of timesForSubdomain: [sub, domain, times, nth],
                 \* nth: earlier returns of the same count for the same name
    atStop       \* workers whose timesForSubdomain call was in flight at Stop

filterVars == <<mutex, fpc, freq, filter, count, dupQueue>>
loopVars == <<loopPc, pending, enumDone, clock, tickChan, graphNodes>>
subVars == <<squeue, timesChan, done, mgrPc, subdomains, spc, sreq, replyCh, srcs>>
obsFilter == <<accepts, everAcc, rejected>>
obsLoop == <<lookups>>
obsSub == <<resub, derived, atStop>>
vars == <<filterVars, loopVars, subVars, ncalls, last, obsFilter, obsLoop, obsSub>>

NoOp == [op |-> "none"]

InitFilter ==
    /\ mutex = 0
    /\ fpc = [w \in Workers |-> "idle"]
    /\ freq = [w \in Workers |-> NoOp]
    /\ filter = {}
    /\ count = 0
    /\ dupQueue = <<>>
    /\ accepts = <<>>
    /\ everAcc = {}
    /\ rejected = {}

InitLoop ==
    /\ loopPc = "loop"
    /\ pending = <<>>
    /\ enumDone = FALSE
    /\ clock = 0
    /\ tickChan = <<>>
    /\ graphNodes = {}
    /\ lookups = {}

InitSub ==
    /\ squeue = <<>>
    /\ timesChan = <<>>
    /\ done = FALSE
    /\ mgrPc = "run"
    /\ subdomains = <<>>
    /\ spc = [w \in Workers |-> "idle"]
    /\ sreq = [w \in Workers |-> NoOp]
    /\ replyCh = [w \in Workers |-> <<>>]
    /\ srcs = 0
    /\ resub = {}
    /\ derived = {}
    /\ atStop = {}

InitAll ==
    /\ InitFilter
    /\ InitLoop
    /\ InitSub
    /\ ncalls = 0
    /\ last = NoOp

----------------------------------------------------------------------------
(* fqdnFilter *)

DNSRequest(name, domain, tag) ==
    [kind |-> "dns", Name |-> name, Domain |-> domain, Tag |-> tag, Source |-> tag]

\* data that is not a *requests.DNSRequest
OtherData == [kind |-> "other"]

FilterInputs ==
    {DNSRequest(n, S_ec, t) : n \in {S_aec, S_bec}, t \in {"dns", "scrape"}}
        \cup {DNSRequest(S_Aec, S_ec, "scrape"), DNSRequest(S_empty, S_ec, "dns"), OtherData}

\* the key checkFilter gives the filter: req.Name+strconv.FormatBool(trusted)
Key(name, trusted) == Append(name, FormatBool(trusted))

\* stringfilter.Filter.Has on a bloom filter holding the keys f; fp: the bits
\* of k happen to be set by other keys (impossible in an empty filter)
BloomHas(f, k, fp) == k \in f \/ (fp /\ f # {})

\* stringfilter.Filter.Duplicate: Has, and insert when absent
BloomDuplicate(f, k, fp) == [dup |-> BloomHas(f, k, fp), filter |-> f \cup {k}]

\* checkFilter with Has in place of Duplicate: the key is never inserted
CheckFilterBody_NoInsert(req, f, c, fp1, fp2) ==
    LET reset == c >= FilterMaxSize
        c0 == IF reset THEN 0 ELSE c
        f0 == IF reset THEN {} ELSE f
        trusted == TrustedTag(req.Tag)
    IN  IF ~trusted /\ BloomHas(f0, Key(req.Name, TRUE), fp1)
        THEN [filter |-> f0, count |-> c0, enq |-> TRUE, ret |-> FALSE, reset |-> reset]
        ELSE IF BloomHas(f0, Key(req.Name, trusted), fp2)
        THEN [filter |-> f0, count |-> c0, enq |-> TRUE, ret |-> FALSE, reset |-> reset]
        ELSE [filter |-> f0, count |-> c0 + 1, enq |-> FALSE, ret |-> TRUE, reset |-> reset]

\* checkFilter without the trusted-key test of lines 67-70
CheckFilterBody_NoTrustTest(req, f, c, fp1, fp2) ==
    LET reset == c >= FilterMaxSize
        c0 == IF reset THEN 0 ELSE c
        f0 == IF reset THEN {} ELSE f
        trusted == TrustedTag(req.Tag)
        d == BloomDuplicate(f0, Key(req.Name, trusted), fp2)
    IN  IF d.dup
        THEN [filter |-> f0, count |-> c0, enq |-> TRUE, ret |-> FALSE, reset |-> reset]
        ELSE [filter |-> d.filter, count |-> c0 + 1, enq |-> FALSE, ret |-> TRUE, reset |-> reset]

\* checkFilter resetting the counter but keeping the old filter
CheckFilterBody_KeepFilter(req, f, c, fp1, fp2) ==
    LET reset == c >= FilterMaxSize
        c0 == IF reset THEN 0 ELSE c
        trusted == TrustedTag(req.Tag)
        d == BloomDuplicate(f, Key(req.Name, trusted), fp2)
    IN  IF ~trusted /\ BloomHas(f, Key(req.Name, TRUE), fp1)
        THEN [filter |-> f, count |-> c0, enq |-> TRUE, ret |-> FALSE, reset |-> reset]
        ELSE IF d.dup
        THEN [filter |-> f, count |-> c0, enq |-> TRUE, ret |-> FALSE, reset |-> reset]
        ELSE [filter |-> d.filter, count |-> c0 + 1, enq |-> FALSE, ret |-> TRUE, reset |-> reset]

\* checkFilter with > for >= in the test of the counter
CheckFilterBody_LateReset(req, f, c, fp1, fp2) ==
    LET reset == c > FilterMaxSize
        c0 == IF reset THEN 0 ELSE c
        f0 == IF reset THEN {} ELSE f
        trusted == TrustedTag(req.Tag)
        d == BloomDuplicate(f0, Key(req.Name, trusted), fp2)
    IN  IF ~trusted /\ BloomHas(f0, Key(req.Name, TRUE), fp1)
        THEN [filter |-> f0, count |-> c0, enq |-> TRUE, ret |-> FALSE, reset |-> reset]
        ELSE IF d.dup
        THEN [filter |-> f0, count |-> c0, enq |-> TRUE, ret |-> FALSE, reset |-> reset]
        ELSE [filter |-> d.filter, count |-> c0 + 1, enq |-> FALSE, ret |-> TRUE, reset |-> reset]

\* checkFilter without the return nil of line 69: the request goes on to the
\* Duplicate test after f.queue.Append
CheckFilterBody_FallThrough(req, f, c, fp1, fp2) ==
    LET reset == c >= FilterMaxSize
        c0 == IF reset THEN 0 ELSE c
        f0 == IF reset THEN {} ELSE f
        trusted == TrustedTag(req.Tag)
        d == BloomDuplicate(f0, Key(req.Name, trusted), fp2)
        early == ~trusted /\ BloomHas(f0, Key(req.Name, TRUE), fp1)
    IN  IF d.dup
        THEN [filter |-> f0, count |-> c0, enq |-> TRUE, ret |-> FALSE, reset |-> reset]
        ELSE [filter |-> d.filter, count |-> c0 + 1, enq |-> early, ret |-> TRUE,
              reset |-> reset]

\* The body of checkFilter on a valid request, from filter f and count c.
\* ret: the request is returned; enq: f.queue.Append(req) ran.
CheckFilterBody(req, f, c, fp1, fp2) ==
    LET reset == c >= FilterMaxSize
        c0 == IF reset THEN 0 ELSE c
        f0 == IF reset THEN {} ELSE f
        trusted == TrustedTag(req.Tag)
        d == BloomDuplicate(f0, Key(req.Name, trusted), fp2)
    IN  IF ~trusted /\ BloomHas(f0, Key(req.Name, TRUE), fp1)
        THEN [filter |-> f0, count |-> c0, enq |-> TRUE, ret |-> FALSE, reset |-> reset]
        ELSE IF d.dup
        THEN [filter |-> f0, count |-> c0, enq |-> TRUE, ret |-> FALSE, reset |-> reset]
        ELSE [filter |-> d.filter, count |-> c0 + 1, enq |-> FALSE, ret |-> TRUE, reset |-> reset]

\* the request, with the number of its Process call to tell the pointers apart
Numbered(req, n) ==
    [kind |-> req.kind, Name |-> req.Name, Domain |-> req.Domain, Tag |-> req.Tag,
     Source |-> req.Source, id |-> n]

\* fqdnFilter.Process up to f.Lock() in checkFilter
FilterProcessOn(w, data, maxCalls) ==
    /\ fpc[w] = "idle"
    /\ ncalls < maxCalls
    /\ ncalls' = ncalls + 1
    /\ IF data.kind # "dns"
       THEN /\ last' = [op |-> "passthrough"]
            /\ UNCHANGED <<mutex, fpc, freq>>
       ELSE /\ mutex = 0
            /\ mutex' = w
            /\ fpc' = [fpc EXCEPT ![w] = "locked"]
            /\ freq' = [freq EXCEPT ![w] = Numbered(SanitizeDNSRequest(data), ncalls')]
            /\ UNCHANGED last
    /\ UNCHANGED <<filter, count, dupQueue, obsFilter>>

\* checkFilter from after f.Lock() to the deferred f.Unlock()
checkFilter(w) ==
    /\ fpc[w] = "locked"
    /\ mutex = w
    /\ mutex' = 0
    /\ fpc' = [fpc EXCEPT ![w] = "idle"]
    /\ freq' = [freq EXCEPT ![w] = NoOp]
    /\ LET req == freq[w] IN
       IF ~Valid(req)
       THEN /\ last' = [op |-> "checkFilter", result |-> "invalid", name |-> req.Name,
                        trusted |-> TrustedTag(req.Tag), reset |-> FALSE,
                        wasFull |-> count >= FilterMaxSize, enq |-> FALSE,
                        trustedBefore |-> FALSE, trustedInWindow |-> FALSE,
                        acceptedBefore |-> FALSE]
            /\ UNCHANGED <<filter, count, dupQueue, obsFilter>>
       ELSE \E fp1, fp2 \in BOOLEAN :
            LET r == CheckFilterBody(req, filter, count, fp1, fp2)
                trusted == TrustedTag(req.Tag)
                k == Key(req.Name, trusted)
                window == IF r.reset THEN <<>> ELSE accepts
            IN  /\ filter' = r.filter
                /\ count' = r.count
                /\ dupQueue' = IF r.enq THEN Append(dupQueue, req) ELSE dupQueue
                /\ accepts' = IF r.ret THEN Append(window, k) ELSE window
                /\ everAcc' = IF r.ret THEN everAcc \cup {k} ELSE everAcc
                /\ rejected' = IF r.enq THEN rejected \cup {req.id} ELSE rejected
                /\ last' = [op |-> "checkFilter",
                            result |-> IF r.ret THEN "accepted" ELSE "duplicate",
                            name |-> req.Name, trusted |-> trusted, reset |-> r.reset,
                            wasFull |-> count >= FilterMaxSize, enq |-> r.enq,
                            trustedBefore |-> Key(req.Name, TRUE) \in everAcc,
                            trustedInWindow |->
                                \E i \in DOMAIN window : window[i] = Key(req.Name, TRUE),
                            acceptedBefore |-> k \in everAcc]

FilterProcess(w) ==
    /\ \E data \in FilterInputs : FilterProcessOn(w, data, MaxFilterCalls)
    /\ UNCHANGED <<loopVars, subVars, obsLoop, obsSub>>

FilterCheck(w) ==
    /\ checkFilter(w)
    /\ UNCHANGED <<loopVars, subVars, ncalls, obsLoop, obsSub>>

FilterInit == InitAll

FilterNext ==
    \/ \E w \in Workers : FilterProcess(w)
    \/ \E w \in Workers : FilterCheck(w)

FilterSpec == FilterInit /\ [][FilterNext]_vars

----------------------------------------------------------------------------
(* fqdnFilter.processDupNames *)

ReconInputs == {DNSRequest(S_aec, S_ec, "dns"), DNSRequest(S_aec, S_ec, "scrape")}

GraphNames == {S_aec}

\* the each callback: one altsource stamped with time.Now()
Altsource(req, now) ==
    [Name |-> req.Name, Source |-> req.Source, Tag |-> req.Tag, Timestamp |-> now,
     id |-> req.id]

\* the each callback putting the new entries in front of the pending slice
QueueProcess_Prepend(p, q, now) == [i \in DOMAIN q |-> Altsource(q[i], now)] \o p

\* f.queue.Process(each) appended to the pending slice
QueueProcess(p, q, now) == p \o [i \in DOMAIN q |-> Altsource(q[i], now)]

\* the grace test comparing with the stamp itself
StillInGrace_NoAdd(now, a) == now < a.Timestamp

\* now.Before(a.Timestamp.Add(10 * time.Minute))
StillInGrace(now, a) == now < a.Timestamp + GracePeriod

\* the count of the ticker case: entries passed before the break
RECURSIVE ScanCount(_, _)
ScanCount(p, now) ==
    IF p = <<>> THEN 0
    ELSE IF StillInGrace(now, Head(p)) THEN 0
    ELSE 1 + ScanCount(Tail(p), now)

\* ReadNode and, when the node is there, InsertFQDN for one entry
Lookup(a, tick, phase) ==
    [id |-> a.id, Name |-> a.Name, Source |-> a.Source, Tag |-> a.Tag,
     stamp |-> a.Timestamp, tick |-> tick, phase |-> phase, found |-> a.Name \in graphNodes,
     inserted |-> a.Name \in graphNodes]

ReconProcess(w) ==
    /\ \E data \in ReconInputs : FilterProcessOn(w, data, MaxReconCalls)
    /\ UNCHANGED <<loopVars, subVars, obsLoop, obsSub>>

\* the runtime clock, and the ticker sending on t.C unless a tick is waiting
AdvanceClock ==
    /\ clock < MaxTime
    /\ clock' = clock + 1
    /\ tickChan' = IF tickChan = <<>> THEN <<clock'>> ELSE tickChan
    /\ UNCHANGED <<loopPc, pending, enumDone, graphNodes>>
    /\ UNCHANGED <<filterVars, subVars, ncalls, last, obsFilter, obsLoop, obsSub>>

\* another stage of the enumeration stores the fqdn node of a name
GraphInsert ==
    /\ \E n \in GraphNames : n \notin graphNodes /\ graphNodes' = graphNodes \cup {n}
    /\ UNCHANGED <<loopPc, pending, enumDone, clock, tickChan>>
    /\ UNCHANGED <<filterVars, subVars, ncalls, last, obsFilter, obsLoop, obsSub>>

\* close(f.enum.done)
EnumDone ==
    /\ ~enumDone
    /\ enumDone' = TRUE
    /\ UNCHANGED <<loopPc, pending, clock, tickChan, graphNodes>>
    /\ UNCHANGED <<filterVars, subVars, ncalls, last, obsFilter, obsLoop, obsSub>>

\* case <-f.queue.Signal(): f.queue.Process(each)
LoopQueueSignal ==
    /\ loopPc = "loop"
    /\ dupQueue # <<>>
    /\ pending' = QueueProcess(pending, dupQueue, clock)
    /\ dupQueue' = <<>>
    /\ last' = [op |-> "each"]
    /\ UNCHANGED <<loopPc, enumDone, clock, tickChan, graphNodes, lookups>>
    /\ UNCHANGED <<mutex, fpc, freq, filter, count, subVars, ncalls, obsFilter, obsSub>>

\* case now := <-t.C
LoopTick ==
    /\ loopPc = "loop"
    /\ tickChan # <<>>
    /\ LET now == tickChan[1]
           n == ScanCount(pending, now)
       IN  /\ lookups' = lookups \cup {Lookup(pending[i], now, "scan") : i \in 1..n}
           /\ pending' = SubSeq(pending, n + 1, Len(pending))
           /\ last' = [op |-> "scan", tick |-> now, before |-> pending,
                       graph |-> graphNodes]
    /\ tickChan' = <<>>
    /\ UNCHANGED <<loopPc, enumDone, clock, graphNodes>>
    /\ UNCHANGED <<filterVars, subVars, ncalls, obsFilter, obsSub>>

\* case <-f.enum.done: break loop
LoopDone ==
    /\ loopPc = "loop"
    /\ enumDone
    /\ loopPc' = "flush"
    /\ UNCHANGED <<pending, enumDone, clock, tickChan, graphNodes>>
    /\ UNCHANGED <<filterVars, subVars, ncalls, last, obsFilter, obsLoop, obsSub>>

\* the entries looked up after the loop, without the last f.queue.Process
FlushEntries_BufferOnly(p, q, now) == p

\* the entries looked up after the loop: f.queue.Process(each), then pending
FlushEntries(p, q, now) == QueueProcess(p, q, now)

\* after the loop: f.queue.Process(each) and the lookup of every pending entry
LoopFlush ==
    /\ loopPc = "flush"
    /\ loopPc' = "exited"
    /\ LET all == FlushEntries(pending, dupQueue, clock)
       IN  /\ pending' = all
           /\ lookups' = lookups \cup {Lookup(all[i], clock, "flush") : i \in DOMAIN all}
    /\ dupQueue' = <<>>
    /\ last' = [op |-> "flush"]
    /\ UNCHANGED <<enumDone, clock, tickChan, graphNodes>>
    /\ UNCHANGED <<mutex, fpc, freq, filter, count, subVars, ncalls, obsFilter, obsSub>>

ReconInit == InitAll

ReconNext ==
    \/ \E w \in Workers : ReconProcess(w)
    \/ \E w \in Workers : FilterCheck(w)
    \/ AdvanceClock
    \/ GraphInsert
    \/ EnumDone
    \/ LoopQueueSignal
    \/ LoopTick
    \/ LoopDone
    \/ LoopFlush

ReconSpec == ReconInit /\ [][ReconNext]_vars

\* the select of processDupNames takes a case that stays ready, and the code
\* after the loop runs
ReconFairSpec == ReconSpec /\ WF_vars(LoopDone) /\ WF_vars(LoopFlush)

----------------------------------------------------------------------------
(* subdomainTask *)

\* a nil *requests.DNSRequest
NilRequest == [kind |-> "dns", Name |-> <<>>, Domain |-> <<>>, Tag |-> "nil", Source |-> "nil"]

SubInputs ==
    {DNSRequest(S_abec, S_ec, "dns"), DNSRequest(S_xbec, S_ec, "dns"),
     DNSRequest(S_abec, S_bec, "dns"),
     DNSRequest(S_ec, S_ec, "dns"), DNSRequest(S_tcpbec, S_ec, "dns"),
     DNSRequest(S_zo, S_zo, "dns"), NilRequest, OtherData}

ServiceLabels == {<<"_tcp">>, <<"_udp">>, <<"_tls">>}

ResolvedRequest(req) ==
    [type |-> "Resolved", Name |-> req.Name, Domain |-> req.Domain,
     Tag |-> req.Tag, Source |-> req.Source]

SubdomainRequest(sub, req, times) ==
    [type |-> "Subdomain", Name |-> sub, Domain |-> req.Domain,
     Tag |-> req.Tag, Source |-> req.Source, Times |-> times]

\* the label loop of Process with its return nil removed
HasServiceLabel_Never(name) == FALSE

\* the label loop of Process: some label is _tcp, _udp or _tls
HasServiceLabel(name) ==
    \E i \in DOMAIN Split(name) : Split(name)[i] \in ServiceLabels

\* r.queue.Append of the ResolvedRequest left out
AppendResolved_Dropped(q, req) == q

\* r.queue.Append(&requests.ResolvedRequest{...})
AppendResolved(q, req) == Append(q, ResolvedRequest(req))

\* checkForSubdomains going on whatever the graph answers
IsCNAMENode_Ignored(sub, answer) == FALSE

\* r.enum.Graph.IsCNAMENode(sub): the graph's answer for sub
IsCNAMENode(sub, answer) == answer

\* the second guard of checkForSubdomains with <= for <
HasCandidate_StrictBound(req) ==
    LET num == Len(Split(req.Name))
    IN  ~(num < 2) /\ ~(num - 1 <= Len(Split(req.Domain)))

\* the guards of checkForSubdomains before the graph is asked
HasCandidate(req) ==
    LET num == Len(Split(req.Name))
    IN  ~(num < 2) /\ ~(num - 1 < Len(Split(req.Domain)))

\* sub := strings.TrimSpace(strings.Join(labels[1:], "."))
Candidate(req) == TrimSpace(Join(Tail(Split(req.Name))))

\* the test guarding go pipeline.SendData, with every count resubmitted
FirstTime_AnyCount(sub, domain, times) == sub # domain

\* the test guarding go pipeline.SendData
FirstTime(sub, domain, times) == sub # domain /\ times = 1

\* the map update of timesManager that forgets to store the new count
TimesUpdate_NoStore(m, sub) ==
    LET times == IF sub \in DOMAIN m THEN m[sub] + 1 ELSE 1
    IN  [times |-> times, map |-> m]

\* the map update of timesManager: the count sent back and the new map
TimesUpdate(m, sub) ==
    LET times == IF sub \in DOMAIN m THEN m[sub] + 1 ELSE 1
    IN  [times |-> times,
         map |-> [x \in DOMAIN m \cup {sub} |-> IF x = sub THEN times ELSE m[x]]]

\* subdomainTask.Process and checkForSubdomains up to the send on r.timesChan
SubProcess(w) ==
    /\ spc[w] = "idle"
    /\ ncalls < MaxSubCalls
    /\ ncalls' = ncalls + 1
    /\ \E data \in SubInputs, isCNAME \in BOOLEAN :
       IF data.kind # "dns"
       THEN /\ last' = [op |-> "passthrough"]
            /\ UNCHANGED <<squeue, spc, sreq>>
       ELSE IF data = NilRequest \/ ~IsDomainInScope(data.Name)
       THEN /\ last' = [op |-> "Process", ret |-> FALSE, why |-> "scope"]
            /\ UNCHANGED <<squeue, spc, sreq>>
       ELSE IF HasServiceLabel(data.Name)
       THEN /\ last' = [op |-> "Process", ret |-> FALSE, why |-> "service"]
            /\ UNCHANGED <<squeue, spc, sreq>>
       ELSE /\ squeue' = AppendResolved(squeue, data)
            /\ IF ~HasCandidate(data)
               THEN /\ last' = [op |-> "Process", ret |-> TRUE, why |-> "labels"]
                    /\ UNCHANGED <<spc, sreq>>
               ELSE IF IsCNAMENode(Candidate(data), isCNAME)
               THEN /\ last' = [op |-> "Process", ret |-> TRUE, why |-> "cname"]
                    /\ UNCHANGED <<spc, sreq>>
               ELSE /\ spc' = [spc EXCEPT ![w] = "send"]
                    /\ sreq' = [sreq EXCEPT ![w] =
                                  [req |-> data, sub |-> Candidate(data),
                                   alias |-> isCNAME]]
                    /\ UNCHANGED last
    /\ UNCHANGED <<timesChan, done, mgrPc, subdomains, replyCh, srcs, obsSub>>
    /\ UNCHANGED <<filterVars, loopVars, obsFilter, obsLoop>>

\* timesForSubdomain: r.timesChan <- &timesReq{Sub: sub, Ch: ch}
TimesSend(w) ==
    /\ spc[w] = "send"
    /\ Len(timesChan) < TimesChanCap
    /\ timesChan' = Append(timesChan, [Sub |-> sreq[w].sub, Ch |-> w])
    /\ spc' = [spc EXCEPT ![w] = "recv"]
    /\ UNCHANGED <<squeue, done, mgrPc, subdomains, sreq, replyCh, srcs, obsSub>>
    /\ UNCHANGED <<filterVars, loopVars, obsFilter, obsLoop, ncalls, last>>

\* timesManager: case req := <-r.timesChan
TimesManagerServe ==
    /\ mgrPc = "run"
    /\ timesChan # <<>>
    /\ LET req == Head(timesChan)
           u == TimesUpdate(subdomains, req.Sub)
       IN  /\ subdomains' = u.map
           /\ replyCh' = [replyCh EXCEPT ![req.Ch] = Append(@, u.times)]
    /\ timesChan' = Tail(timesChan)
    /\ UNCHANGED <<squeue, done, mgrPc, spc, sreq, srcs, obsSub>>
    /\ UNCHANGED <<filterVars, loopVars, obsFilter, obsLoop, ncalls, last>>

\* timesManager: case <-r.done
TimesManagerExit ==
    /\ mgrPc = "run"
    /\ done
    /\ mgrPc' = "exited"
    /\ UNCHANGED <<squeue, timesChan, done, subdomains, spc, sreq, replyCh, srcs, obsSub>>
    /\ UNCHANGED <<filterVars, loopVars, obsFilter, obsLoop, ncalls, last>>

\* timesForSubdomain: return <-ch, and the rest of checkForSubdomains
TimesRecv(w) ==
    /\ spc[w] = "recv"
    /\ replyCh[w] # <<>>
    /\ LET times == Head(replyCh[w])
           req == sreq[w].req
           sub == sreq[w].sub
           first == FirstTime(sub, req.Domain, times)
           nth == Cardinality({d \in derived : d.sub = sub /\ d.times = times})
       IN  /\ squeue' = Append(squeue, SubdomainRequest(sub, req, times))
           /\ resub' = IF first THEN resub \cup {[sub |-> sub, times |-> times, nth |-> nth]}
                       ELSE resub
           /\ derived' = derived \cup
                  {[sub |-> sub, domain |-> req.Domain, times |-> times, nth |-> nth]}
           /\ last' = [op |-> "Process", ret |-> TRUE, why |-> "subdomain"]
    /\ replyCh' = [replyCh EXCEPT ![w] = Tail(@)]
    /\ spc' = [spc EXCEPT ![w] = "idle"]
    /\ sreq' = [sreq EXCEPT ![w] = NoOp]
    /\ atStop' = atStop \ {w}
    /\ UNCHANGED <<timesChan, done, mgrPc, subdomains, srcs>>
    /\ UNCHANGED <<filterVars, loopVars, obsFilter, obsLoop, ncalls>>

\* subdomainTask.Stop
Stop ==
    /\ ~done
    /\ done' = TRUE
    /\ squeue' = <<>>
    /\ atStop' = {w \in Workers : spc[w] \in {"send", "recv"}}
    /\ last' = [op |-> "Stop"]
    /\ UNCHANGED <<timesChan, mgrPc, subdomains, spc, sreq, replyCh, srcs, resub, derived>>
    /\ UNCHANGED <<filterVars, loopVars, obsFilter, obsLoop, ncalls>>

SubInit == InitAll

SubNext ==
    \/ \E w \in Workers : SubProcess(w)
    \/ \E w \in Workers : TimesSend(w)
    \/ TimesManagerServe
    \/ TimesManagerExit
    \/ \E w \in Workers : TimesRecv(w)
    \/ Stop

SubSpec == SubInit /\ [][SubNext]_vars


----------------------------------------------------------------------------
(* subdomainTask.OutputRequests *)

\* an element of r.queue that is neither request type
OtherElement == [type |-> "Other"]

DrainElements ==
    {ResolvedRequest(DNSRequest(S_abec, S_ec, "dns")),
     SubdomainRequest(S_bec, DNSRequest(S_abec, S_ec, "dns"), 1),
     OtherElement}

Recognised(e) == e.type \in {"Resolved", "Subdomain"}

\* the range over r.enum.srcs counting one delivery for the whole element
Fanout_CountOnce(e, pos, i, n, acc) ==
    IF n = 0 THEN [count |-> acc.count, delivered |-> acc.delivered, skip |-> FALSE]
    ELSE IF ~Recognised(e)
    THEN [count |-> acc.count, delivered |-> acc.delivered, skip |-> TRUE]
    ELSE [count |-> acc.count + 1,
          delivered |-> acc.delivered \o [j \in 1..n |-> [src |-> j, pos |-> pos, rec |-> e]],
          skip |-> FALSE]

\* for _, src := range r.enum.srcs, from source i: the element at position
\* pos goes to every source, count++ each time; skip: continue loop was taken
RECURSIVE Fanout(_, _, _, _, _)
Fanout(e, pos, i, n, acc) ==
    IF i > n THEN [count |-> acc.count, delivered |-> acc.delivered, skip |-> FALSE]
    ELSE IF ~Recognised(e)
    THEN [count |-> acc.count, delivered |-> acc.delivered, skip |-> TRUE]
    ELSE Fanout(e, pos, i + 1, n,
                [count |-> acc.count + 1,
                 delivered |-> Append(acc.delivered, [src |-> i, pos |-> pos, rec |-> e])])

\* the loop of OutputRequests leaving at an unrecognised element
RECURSIVE DrainLoop_BreakOnOther(_, _, _, _, _)
DrainLoop_BreakOnOther(q, n, num, pulled, acc) ==
    IF q = <<>> THEN [queue |-> q, count |-> acc.count, delivered |-> acc.delivered,
                      pulled |-> pulled]
    ELSE LET f == Fanout(Head(q), pulled + 1, 1, n, acc)
         IN  IF f.skip \/ f.count >= num
             THEN [queue |-> Tail(q), count |-> f.count, delivered |-> f.delivered,
                   pulled |-> pulled + 1]
             ELSE DrainLoop_BreakOnOther(Tail(q), n, num, pulled + 1, f)

\* the loop of OutputRequests testing count > num
RECURSIVE DrainLoop_StrictTest(_, _, _, _, _)
DrainLoop_StrictTest(q, n, num, pulled, acc) ==
    IF q = <<>> THEN [queue |-> q, count |-> acc.count, delivered |-> acc.delivered,
                      pulled |-> pulled]
    ELSE LET f == Fanout(Head(q), pulled + 1, 1, n, acc)
         IN  IF f.skip THEN DrainLoop_StrictTest(Tail(q), n, num, pulled + 1, f)
             ELSE IF f.count > num
             THEN [queue |-> Tail(q), count |-> f.count, delivered |-> f.delivered,
                   pulled |-> pulled + 1]
             ELSE DrainLoop_StrictTest(Tail(q), n, num, pulled + 1, f)

\* the loop of OutputRequests: r.queue.Next(), the range over the sources,
\* continue loop on an unrecognised element, break once count >= num
RECURSIVE DrainLoop(_, _, _, _, _)
DrainLoop(q, n, num, pulled, acc) ==
    IF q = <<>> THEN [queue |-> q, count |-> acc.count, delivered |-> acc.delivered,
                      pulled |-> pulled]
    ELSE LET f == Fanout(Head(q), pulled + 1, 1, n, acc)
         IN  IF f.skip THEN DrainLoop(Tail(q), n, num, pulled + 1, f)
             ELSE IF f.count >= num
             THEN [queue |-> Tail(q), count |-> f.count, delivered |-> f.delivered,
                   pulled |-> pulled + 1]
             ELSE DrainLoop(Tail(q), n, num, pulled + 1, f)

\* OutputRequests(num) on queue q with n registered sources
OutputRequestsOf(q, n, num) ==
    IF num <= 0
    THEN [queue |-> q, count |-> 0, delivered |-> <<>>, pulled |-> 0]
    ELSE DrainLoop(q, n, num, 0, [count |-> 0, delivered |-> <<>>])

OutputRequests ==
    /\ \E num \in -1..MaxNum :
       LET r == OutputRequestsOf(squeue, srcs, num)
       IN  /\ squeue' = r.queue
           /\ last' = [op |-> "OutputRequests", num |-> num, ret |-> r.count,
                       before |-> squeue, pulled |-> r.pulled, delivered |-> r.delivered]
    /\ UNCHANGED <<timesChan, done, mgrPc, subdomains, spc, sreq, replyCh, srcs, obsSub>>
    /\ UNCHANGED <<filterVars, loopVars, obsFilter, obsLoop, ncalls>>

RECURSIVE SeqsUpTo(_, _)
SeqsUpTo(S, n) ==
    IF n = 0 THEN {<<>>}
    ELSE LET shorter == SeqsUpTo(S, n - 1)
         IN  shorter \cup {Append(q, e) : q \in shorter, e \in S}

\* the output queue and the registered sources a drain can meet
DrainInit ==
    /\ InitFilter
    /\ InitLoop
    /\ squeue \in SeqsUpTo(DrainElements, MaxQueue)
    /\ srcs \in 0..MaxSrcs
    /\ timesChan = <<>>
    /\ done = FALSE
    /\ mgrPc = "run"
    /\ subdomains = <<>>
    /\ spc = [w \in Workers |-> "idle"]
    /\ sreq = [w \in Workers |-> NoOp]
    /\ replyCh = [w \in Workers |-> <<>>]
    /\ resub = {}
    /\ derived = {}
    /\ atStop = {}
    /\ ncalls = 0
    /\ last = NoOp

DrainNext == OutputRequests

DrainSpec == DrainInit /\ [][DrainNext]_vars

----------------------------------------------------------------------------
(* Claims about fqdnFilter.checkFilter, checked under FilterSpec *)

Range(q) == {q[i] : i \in DOMAIN q}

LastChecked == last.op = "checkFilter" /\ last.result # "invalid"

\* C1: between two consecutive filter resets no key (name, trust tier) is
\* accepted twice, and at most one Process call is inside checkFilter at a time
C1_SingleAdmissionPerTier ==
    /\ \A i, j \in DOMAIN accepts : i # j => accepts[i] # accepts[j]
    /\ Cardinality({w \in Workers : fpc[w] = "locked"}) <= 1

\* a record whose key was accepted earlier in this window has been rejected
C1_Witness ==
    /\ LastChecked
    /\ last.result = "duplicate"
    /\ Key(last.name, last.trusted) \in Range(accepts)

\* C2 as stated: once a name was accepted from a trusted tier at any time,
\* every later untrusted observation of it is dropped and enqueued
C2_TrustMonotonicityForever ==
    (LastChecked /\ ~last.trusted /\ last.trustedBefore)
        => (last.result = "duplicate" /\ last.enq)

\* C2 amended: once a name was accepted from a trusted tier, every untrusted
\* observation of it processed before the next filter reset is dropped and
\* appended to the reconciliation queue
C2_TrustMonotonicityInWindow ==
    (LastChecked /\ ~last.trusted /\ last.trustedInWindow)
        => (last.result = "duplicate" /\ last.enq /\ dupQueue # <<>>
            /\ dupQueue[Len(dupQueue)].Name = last.name
            /\ ~TrustedTag(dupQueue[Len(dupQueue)].Tag))

C2_Witness ==
    /\ LastChecked
    /\ ~last.trusted
    /\ last.trustedInWindow
    /\ last.result = "duplicate"

\* C3: the valid record processed when the counter has reached the maximum
\* finds an empty filter and a zero counter: it is accepted whether or not its
\* key was accepted before, the filter then holds its key only and the counter
\* is 1; the filter is replaced at no other time, and no key is accepted twice
\* before the following reset
C3_ResetForgetsCleanly ==
    /\ LastChecked => (last.reset <=> last.wasFull)
    /\ (LastChecked /\ last.wasFull) =>
          /\ last.result = "accepted"
          /\ filter = {Key(last.name, last.trusted)}
          /\ count = 1
          /\ accepts = <<Key(last.name, last.trusted)>>
    /\ Cardinality(Range(accepts)) = Len(accepts)
    /\ Len(accepts) = count

\* a key accepted before the reset is accepted again by the resetting call
C3_Witness ==
    /\ LastChecked
    /\ last.wasFull
    /\ last.reset
    /\ last.acceptedBefore
    /\ last.result = "accepted"

----------------------------------------------------------------------------
(* Claims about subdomainTask, checked under SubSpec *)

\* the counts timesForSubdomain has returned for sub
ReturnedFor(sub) == {d.times : d \in {x \in derived : x.sub = sub}}

\* the counts timesManager has sent that their callers have not read yet
InFlightFor(sub) ==
    {replyCh[w][1] : w \in {x \in Workers : spc[x] = "recv" /\ sreq[x].sub = sub
                                             /\ replyCh[x] # <<>>}}

Quiescent == \A w \in Workers : spc[w] = "idle"

\* C4: for every subdomain the counts sent back by timesManager are exactly
\* 1..n, n the stored count; no two calls of timesForSubdomain return the same
\* count for the same name; and when no call is in flight the k completed
\* calls for a name have returned exactly 1..k
C4_CounterMonotonicity ==
    /\ \A d \in derived : d.nth = 0
    /\ \A sub \in DOMAIN subdomains :
          /\ ReturnedFor(sub) \cup InFlightFor(sub) = 1..subdomains[sub]
          /\ ReturnedFor(sub) \cap InFlightFor(sub) = {}
    /\ \A d \in derived : d.sub \in DOMAIN subdomains
    /\ Quiescent =>
          \A sub \in DOMAIN subdomains :
              ReturnedFor(sub) = 1..Cardinality({d \in derived : d.sub = sub})

\* two calls for the same name have completed, with no Stop
C4_Witness ==
    /\ ~done
    /\ Quiescent
    /\ \E sub \in DOMAIN subdomains :
          /\ Cardinality({d \in derived : d.sub = sub}) = 2
          /\ ReturnedFor(sub) = {1, 2}

ResubsOf(sub) == {r \in resub : r.sub = sub}

\* C5: a derivation triggers a resubmission exactly when it obtained count 1
\* for a candidate that differs from its record's root domain; so no candidate
\* is resubmitted twice, none on a count of 2 or more, none that equals the
\* root domain, and once every call has returned a candidate that always
\* differed from the root domain has been resubmitted exactly once
C5_FirstOccurrenceResubmission ==
    /\ \A d \in derived :
          ([sub |-> d.sub, times |-> d.times, nth |-> d.nth] \in resub)
              <=> (d.times = 1 /\ d.sub # d.domain)
    /\ \A r \in resub :
          \E d \in derived : d.sub = r.sub /\ d.times = r.times /\ d.nth = r.nth
    /\ \A sub \in DOMAIN subdomains : Cardinality(ResubsOf(sub)) <= 1
    /\ Quiescent =>
          \A sub \in DOMAIN subdomains :
              (\A d \in derived : d.sub = sub => d.domain # sub)
                  => Cardinality(ResubsOf(sub)) = 1

\* a candidate derived twice (counts 1 and 2) and resubmitted once, by the
\* call that obtained count 1
C5_Witness ==
    /\ \E d1, d2 \in derived :
          /\ d1.sub = d2.sub
          /\ d1.times = 1
          /\ d2.times = 2
          /\ d1.sub # d1.domain
          /\ d2.sub # d2.domain
          /\ ResubsOf(d1.sub) = {[sub |-> d1.sub, times |-> 1, nth |-> 0]}

\* a worker that can never leave timesForSubdomain: timesManager has
\* returned and no count will ever arrive, or r.timesChan stays full
BlockedForever(w) ==
    /\ mgrPc = "exited"
    /\ \/ spc[w] = "recv" /\ replyCh[w] = <<>>
       \/ spc[w] = "send" /\ Len(timesChan) >= TimesChanCap

\* C6: no timesForSubdomain call that was in flight when Stop closed r.done
\* is left blocked forever on the request send or on the reply receive
C6_NoCallerBlockedByStop == \A w \in atStop : ~BlockedForever(w)

----------------------------------------------------------------------------
(* Claims about subdomainTask.OutputRequests, checked under DrainSpec *)

Drained == last.op = "OutputRequests"

\* positions of the queue the last drain pulled
Pulled == 1..last.pulled

RecognisedPulled == {i \in Pulled : Recognised(last.before[i])}

OtherPulled == {i \in Pulled : ~Recognised(last.before[i])}

RECURSIVE ExpectedDeliveries(_, _, _)
ExpectedDeliveries(before, from, to) ==
    IF from > to THEN <<>>
    ELSE (IF Recognised(before[from])
          THEN [j \in 1..srcs |-> [src |-> j, pos |-> from, rec |-> before[from]]]
          ELSE <<>>) \o ExpectedDeliveries(before, from + 1, to)

AllRecognised == {i \in DOMAIN last.before : Recognised(last.before[i])}

C9_BoundedByCapacity == (Drained /\ last.num > 0) => last.ret <= last.num

\* C9 amended: the count was below num before the last element dispatched,
\* so it is below num + (sources); with at most one source it does not
\* exceed num
C9_BoundedByCapacityPlusFanout ==
    (Drained /\ last.num > 0) =>
        /\ last.ret = 0 \/ last.ret - srcs < last.num
        /\ last.ret < last.num + (IF srcs = 0 THEN 1 ELSE srcs)
        /\ srcs <= 1 => last.ret <= last.num

\* a drain that returned more than num
C9_Witness ==
    /\ Drained
    /\ last.num > 0
    /\ last.ret > last.num
    /\ last.ret < last.num + srcs

----------------------------------------------------------------------------
(* Claims about fqdnFilter.processDupNames, checked under ReconSpec *)

Scanned == last.op = "scan"

\* the entries of the buffer the last scan met past their grace period
MatureAtScan == {i \in DOMAIN last.before :
                    last.tick >= last.before[i].Timestamp + GracePeriod}

\* C10: no entry stamped T is looked up or inserted by a periodic scan whose
\* tick time is before T + grace; a scan consumes every entry with
\* T + grace <= tick time, looking it up once and inserting it exactly when
\* the graph has the node, and leaves the other entries in the buffer
C10_DelayedReconciliation ==
    /\ \A l \in lookups : l.phase = "scan" => l.tick >= l.stamp + GracePeriod
    /\ \A l \in lookups : l.inserted <=> l.found
    /\ Scanned =>
          /\ \A i \in DOMAIN last.before : \A j \in DOMAIN last.before :
                (i <= j) => last.before[i].Timestamp <= last.before[j].Timestamp
          /\ Len(pending) = Len(last.before) - Cardinality(MatureAtScan)
          /\ \A k \in DOMAIN pending :
                /\ pending[k] = last.before[k + Cardinality(MatureAtScan)]
                /\ last.tick < pending[k].Timestamp + GracePeriod
          /\ \A i \in MatureAtScan :
                \E l \in lookups :
                    /\ l.phase = "scan"
                    /\ l.tick = last.tick
                    /\ l.stamp = last.before[i].Timestamp
                    /\ l.Name = last.before[i].Name
                    /\ l.Source = last.before[i].Source
                    /\ l.inserted = (last.before[i].Name \in last.graph)

\* a scan has consumed an entry whose grace period was over, inserted it
\* into the graph, and left a younger entry in the buffer
C10_Witness ==
    /\ Scanned
    /\ loopPc = "loop"
    /\ MatureAtScan # {}
    /\ pending # <<>>
    /\ \E l \in lookups : l.phase = "scan" /\ l.tick = last.tick /\ l.inserted

----------------------------------------------------------------------------
(* Claims about the shutdown of processDupNames *)

Ids(q) == {q[i].id : i \in DOMAIN q}

LookedUp == {l.id : l \in lookups}

\* the entries the goroutine still holds
Buffered == IF loopPc = "exited" THEN {} ELSE Ids(pending)

\* every rejected duplicate is in the queue, in the buffer or looked up,
\* in one place only, and no entry is looked up twice
DuplicatesConserved ==
    /\ rejected = Ids(dupQueue) \cup Buffered \cup LookedUp
    /\ Ids(dupQueue) \cap Buffered = {}
    /\ Ids(dupQueue) \cap LookedUp = {}
    /\ Buffered \cap LookedUp = {}
    /\ Cardinality(Ids(dupQueue)) = Len(dupQueue)
    /\ Cardinality(Ids(pending)) = Len(pending)
    /\ \A l1, l2 \in lookups : l1.id = l2.id => l1 = l2

\* C11 as stated: when the loop has terminated no rejected duplicate is left
\* unprocessed: the queue is empty and every rejected duplicate was looked up
C11_ShutdownFlushesAll ==
    loopPc = "exited" => (dupQueue = <<>> /\ rejected = LookedUp)

\* the state the final flush leaves
FlushedAll ==
    (last.op = "flush") =>
        /\ loopPc = "exited"
        /\ dupQueue = <<>>
        /\ rejected = LookedUp
        /\ \A i \in DOMAIN pending :
              \E l \in lookups :
                  /\ l.id = pending[i].id
                  /\ l.phase = "flush"
                  /\ l.inserted = l.found

\* C11 amended: once f.enum.done is closed the loop terminates; its final
\* flush leaves the queue empty and has looked up, once each and whatever
\* their grace period, all duplicates rejected until then, inserting those
\* the graph has a node for; what Process appends after the flush stays in
\* the queue
C11_ShutdownFlushesQueued ==
    /\ [](DuplicatesConserved /\ FlushedAll)
    /\ [](loopPc = "exited" => rejected = LookedUp \cup Ids(dupQueue))
    /\ enumDone ~> (loopPc = "exited")

\* the flush looked up and inserted an entry still inside its grace period
C11_Witness ==
    /\ last.op = "flush"
    /\ loopPc = "exited"
    /\ \E l \in lookups :
          l.phase = "flush" /\ l.tick < l.stamp + GracePeriod /\ l.inserted

----------------------------------------------------------------------------
(* Further claims about fqdnFilter.checkFilter, checked under FilterSpec *)

\* worker w leaves checkFilter in this step
Leaves(w) == fpc[w] = "locked" /\ fpc'[w] = "idle"

Accepted(w) ==
    /\ last'.op = "checkFilter"
    /\ last'.result = "accepted"
    /\ ~last'.enq
    /\ dupQueue' = dupQueue
    /\ rejected' = rejected
    /\ count' = IF count >= FilterMaxSize THEN 1 ELSE count + 1
    /\ accepts' # <<>>
    /\ accepts'[Len(accepts')] = Key(freq[w].Name, TrustedTag(freq[w].Tag))

Dropped(w) ==
    /\ last'.op = "checkFilter"
    /\ last'.result = "duplicate"
    /\ last'.enq
    /\ dupQueue' = Append(dupQueue, freq[w])
    /\ freq[w].id \notin rejected
    /\ count' = count
    /\ accepts' = accepts

\* C12: a valid request leaves checkFilter either accepted (returned, the
\* counter one more than after a possible reset, nothing appended to the
\* queue) or dropped (appended to the queue once, counter unchanged), never
\* both, and no request is in the queue twice
C12_MutuallyExclusiveOutcomes ==
    /\ [][\A w \in Workers :
             (Leaves(w) /\ Valid(freq[w])) =>
                 /\ Accepted(w) \/ Dropped(w)
                 /\ ~(Accepted(w) /\ Dropped(w))]_vars
    /\ [](Cardinality(Ids(dupQueue)) = Len(dupQueue))
    /\ [](rejected = Ids(dupQueue))

\* requests have been accepted and two others dropped into the queue
C12_Witness ==
    /\ LastChecked
    /\ last.result = "duplicate"
    /\ last.enq
    /\ Len(dupQueue) >= 2
    /\ count >= 1
    /\ accepts # <<>>

----------------------------------------------------------------------------
(* Further claims about subdomainTask.Process, checked under SubSpec *)

\* a step that starts a call of Process
ProcessCall == ncalls' = ncalls + 1

\* the call of Process started in this step also returns in it
ReturnsAtOnce == ProcessCall /\ spc' = spc /\ last'.op = "Process"

\* the step appends exactly one element to r.queue
AppendsOne ==
    /\ Len(squeue') = Len(squeue) + 1
    /\ SubSeq(squeue', 1, Len(squeue)) = squeue

Newest(q) == q[Len(q)]

ServiceName(name) ==
    \E i \in 1..Len(Split(name)) : Split(name)[i] \in {<<"_tcp">>, <<"_udp">>, <<"_tls">>}

WithoutLeftmost(name) == Join(Tail(Split(name)))

\* C13: when the graph reports the candidate as a CNAME node, Process appends
\* the ResolvedRequest and returns the request, and no count is requested, no
\* SubdomainRequest is appended and nothing is resubmitted for it
C13_AliasSuppression ==
    /\ [](\A w \in Workers : spc[w] # "idle" => ~sreq[w].alias)
    /\ [][(ReturnsAtOnce /\ last'.why = "cname") =>
             /\ last'.ret
             /\ AppendsOne
             /\ Newest(squeue').type = "Resolved"
             /\ UNCHANGED <<timesChan, subdomains, replyCh, sreq, resub, derived>>]_vars

\* a call returned at the alias test for a candidate that had been counted before
C13_Witness ==
    /\ last.op = "Process"
    /\ last.why = "cname"
    /\ last.ret
    /\ squeue # <<>>
    /\ Newest(squeue).type = "Resolved"
    /\ WithoutLeftmost(Newest(squeue).Name) \in DOMAIN subdomains

\* C14: a request whose name has a label _tcp, _udp or _tls makes Process
\* return nothing and leave r.queue and the count table as they were: no
\* record of such a name is in the queue, none is in flight to timesManager
C14_ServiceLabelRejection ==
    /\ [](\A i \in DOMAIN squeue : ~ServiceName(squeue[i].Name))
    /\ [](\A w \in Workers : spc[w] # "idle" => ~ServiceName(sreq[w].req.Name))
    /\ [][(ReturnsAtOnce /\ last'.why = "service") =>
             /\ ~last'.ret
             /\ UNCHANGED <<squeue, timesChan, subdomains, replyCh, sreq, resub, derived>>]_vars

\* a service name was rejected while the queue and the count table held entries
C14_Witness ==
    /\ last.op = "Process"
    /\ last.why = "service"
    /\ ~last.ret
    /\ squeue # <<>>
    /\ DOMAIN subdomains # {}

Qualifies(name, domain) ==
    /\ Len(Split(name)) >= 2
    /\ Len(Split(name)) - 1 >= Len(Split(domain))

\* C15: for an in-scope name a candidate is derived exactly when the name has
\* at least two labels and one label fewer is still at least the label count
\* of its domain; the candidate is the name without its leftmost label and
\* never has fewer labels than the domain
C15_SubdomainBoundary ==
    /\ [](\A w \in Workers : spc[w] # "idle" =>
            /\ Qualifies(sreq[w].req.Name, sreq[w].req.Domain)
            /\ sreq[w].sub = WithoutLeftmost(sreq[w].req.Name)
            /\ Len(Split(sreq[w].sub)) >= Len(Split(sreq[w].req.Domain))
            /\ sreq[w].req.Name # S_ec
            /\ (sreq[w].req.Name = S_abec => sreq[w].sub = S_bec))
    /\ [](\A d \in derived : Len(Split(d.sub)) >= Len(Split(d.domain)))
    /\ [][(ProcessCall /\ AppendsOne) =>
             LET r == Newest(squeue')
             IN  IF Qualifies(r.Name, r.Domain)
                 THEN \/ ReturnsAtOnce /\ last'.why = "cname"
                      \/ \E w \in Workers :
                            /\ spc[w] = "idle"
                            /\ spc'[w] = "send"
                            /\ sreq'[w].req.Name = r.Name
                            /\ sreq'[w].sub = WithoutLeftmost(r.Name)
                 ELSE ReturnsAtOnce /\ last'.why = "labels"]_vars

\* a.b.e.c under b.e.c has its candidate b.e.c in flight, with exactly as many
\* labels as the domain, after e.c under e.c gave none
C15_Witness ==
    /\ last.op = "Process"
    /\ last.why = "labels"
    /\ \E w \in Workers :
          /\ spc[w] = "recv"
          /\ sreq[w].req.Name = S_abec
          /\ sreq[w].req.Domain = S_bec
          /\ sreq[w].sub = S_bec

InScopeNoService(name) == IsDomainInScope(name) /\ ~ServiceName(name)

\* worker w comes back from timesForSubdomain and finishes Process in this step
Finishes(w) == spc[w] = "recv" /\ spc'[w] = "idle"

\* C19: a call of Process for an in-scope request without service label
\* appends exactly one ResolvedRequest, and a call for any other request
\* appends nothing; the call appends at most one SubdomainRequest, after its
\* ResolvedRequest, and returns the request
C19_ResolvedThenSubdomain ==
    /\ [][ProcessCall =>
             IF spc' # spc \/ (last'.op = "Process" /\ last'.ret)
             THEN /\ AppendsOne
                  /\ Newest(squeue').type = "Resolved"
                  /\ InScopeNoService(Newest(squeue').Name)
                  /\ \A w \in Workers : spc'[w] # spc[w] =>
                        /\ spc'[w] = "send"
                        /\ Newest(squeue') = ResolvedRequest(sreq'[w].req)
             ELSE squeue' = squeue]_vars
    /\ [][\A w \in Workers : Finishes(w) =>
             /\ squeue' = Append(squeue, SubdomainRequest(sreq[w].sub, sreq[w].req,
                                                          Head(replyCh[w])))
             /\ sreq'[w] = NoOp
             /\ last'.op = "Process"
             /\ last'.ret
             /\ w \notin atStop =>
                   \E i \in DOMAIN squeue : squeue[i] = ResolvedRequest(sreq[w].req)]_vars
    /\ [][(~ProcessCall /\ \A w \in Workers : ~Finishes(w)) =>
             squeue' = squeue \/ (done' /\ ~done /\ squeue' = <<>>)]_vars
    /\ [](\A w \in Workers : (spc[w] # "idle" /\ w \notin atStop) =>
             \E i \in DOMAIN squeue : squeue[i] = ResolvedRequest(sreq[w].req))

\* a call has returned after appending its ResolvedRequest and then its
\* SubdomainRequest, while another returned with the ResolvedRequest alone
C19_Witness ==
    /\ last.op = "Process"
    /\ last.why = "subdomain"
    /\ last.ret
    /\ ~done
    /\ \E i, j \in DOMAIN squeue :
          /\ i < j
          /\ j = Len(squeue)
          /\ squeue[i].type = "Resolved"
          /\ squeue[j].type = "Subdomain"
          /\ squeue[j].Name = WithoutLeftmost(squeue[i].Name)
    /\ \E k \in DOMAIN squeue : squeue[k].type = "Resolved" /\ squeue[k].Name = S_ec

----------------------------------------------------------------------------
(* Claims about the validity test, the trust tiers and the counter of
   fqdnFilter, checked under FilterSpec *)

InvalidRecord(req) == req.Name = <<>> \/ req.Domain = <<>>

\* C17: a request with an empty name or domain leaves checkFilter with the
\* filter, the counter and the queue as they were, and without the reset of
\* the filter even when the counter has reached the maximum
C17_InvalidDroppedSilently ==
    [][\A w \in Workers :
          (Leaves(w) /\ InvalidRecord(freq[w])) =>
              /\ UNCHANGED <<filter, count, dupQueue, accepts, everAcc, rejected>>
              /\ last'.op = "checkFilter"
              /\ last'.result = "invalid"
              /\ ~last'.reset
              /\ ~last'.enq]_vars

\* an invalid request was checked with the counter at the maximum, and the
\* filter still holds the keys it held
C17_Witness ==
    /\ last.op = "checkFilter"
    /\ last.result = "invalid"
    /\ last.wasFull
    /\ count = FilterMaxSize
    /\ Cardinality(filter) = FilterMaxSize
    /\ dupQueue # <<>>

NameOf(k) == SubSeq(k, 1, Len(k) - 1)
TierOf(k) == k[Len(k)]

C20_CounterInvariant ==
    /\ [](count \in 0..FilterMaxSize)
    /\ [](count = Cardinality(filter))
    /\ [](count = Len(accepts))
    /\ [](filter = Range(accepts))
    /\ [][\A w \in Workers :
            (Leaves(w) /\ last'.result \in {"duplicate", "invalid"}) =>
                count' = count]_vars
    /\ [][(\A w \in Workers : ~Leaves(w)) => count' = count]_vars

\* the counter has reached the maximum by an acceptance, after rejections
C20_Witness ==
    /\ LastChecked
    /\ last.result = "accepted"
    /\ ~last.reset
    /\ count = FilterMaxSize
    /\ Len(accepts) = FilterMaxSize
    /\ rejected # {}

----------------------------------------------------------------------------
(* Claims about the order of the pending slice, checked under ReconSpec *)

\* the requests of q in the order of their Process calls
InCallOrder(q) == \A i, j \in DOMAIN q : i < j => q[i].id < q[j].id

\* the ticker case of the loop runs in this step
ScanStep == loopPc = "loop" /\ tickChan # <<>> /\ tickChan' = <<>>

\* C16: the pending slice holds the duplicates in the order they were
\* appended to the queue, with non-decreasing stamps; a scan takes a prefix of
\* the slice, every entry of it past its grace period, stops at the first
\* entry still inside its grace period, and leaves the rest as it was
C16_ReconciliationOrder ==
    /\ [](InCallOrder(dupQueue) /\ InCallOrder(pending))
    /\ [](\A i \in DOMAIN pending : \A j \in DOMAIN dupQueue :
             pending[i].id < dupQueue[j].id)
    /\ [](\A i, j \in DOMAIN pending :
             i < j => pending[i].Timestamp <= pending[j].Timestamp)
    /\ [][ScanStep =>
             \E n \in 0..Len(pending) :
                /\ pending' = SubSeq(pending, n + 1, Len(pending))
                /\ \A i \in 1..n : tickChan[1] >= pending[i].Timestamp + GracePeriod
                /\ n < Len(pending) =>
                      tickChan[1] < pending[n + 1].Timestamp + GracePeriod
                /\ {l.id : l \in lookups' \ lookups} = {pending[i].id : i \in 1..n}]_vars

\* a scan took the older entry of the slice and left the younger one
C16_Witness ==
    /\ Scanned
    /\ Len(last.before) >= 2
    /\ Len(pending) >= 1
    /\ Len(pending) < Len(last.before)
    /\ last.before[1].Timestamp < pending[1].Timestamp
    /\ last.before[1].id < pending[1].id

====
